---- MODULE Spec2Model ----
(***************************************************************************)
(* A model of the parser-combinator library src/parsec/parsec.go.          *)
(*                                                                         *)
(* A Parser (a Go closure) is a record naming the function that built it   *)
(* and the operands it captured; running it is the operator Run, which     *)
(* evaluates the closure's body as the source writes it.  Bytes are their  *)
(* integer codes, Go strings and []byte are sequences of bytes, and a      *)
(* formatted message is the sequence of bytes fmt.Sprintf produces.        *)
(***************************************************************************)
EXTENDS Integers, Sequences, FiniteSets, TLC

VARIABLES st, pc, fn, args, pre, res

vars == <<st, pc, fn, args, pre, res>>

(***************************************************************************)
(* Bounds of the model.                                                    *)
(***************************************************************************)
\* longest generated source
MaxLen == 3
\* a further combinator is applied to a cursor only while Line <= MaxLine
MaxLine == 2
\* nesting of parser calls at which the Go runtime's stack is taken to overflow
MaxDepth == 30

(***************************************************************************)
(* Bytes and text.                                                         *)
(***************************************************************************)
\* '\n'
LF == 10
\* '\000'
NUL == 0

Alphabet == {LF, 97, 98}

\* the nil interface value and the nil error
nil == [nil |-> TRUE]

\* interface{} values the library produces: a byte, a string, a []interface{}
Byte(b) == [byte |-> b]
Str(s) == [string |-> s]
List(xs) == [list |-> xs]

\* fmt's %c of a byte below 128: the byte itself
FmtC(c) == <<c>>

RECURSIVE Digits10(_)
\* fmt's %d of a non-negative integer
Digits10(n) == IF n < 10 THEN <<48 + n>> ELSE Digits10(n \div 10) \o <<48 + (n % 10)>>

\* "Unexpected end of file"
MsgUnexpectedEof ==
    <<85, 110, 101, 120, 112, 101, 99, 116, 101, 100, 32, 101, 110, 100, 32,
      111, 102, 32, 102, 105, 108, 101>>
\* "Expected end of file but got '%c'"
MsgExpectedEof(c) ==
    <<69, 120, 112, 101, 99, 116, 101, 100, 32, 101, 110, 100, 32, 111, 102,
      32, 102, 105, 108, 101, 32, 98, 117, 116, 32, 103, 111, 116, 32, 39>>
    \o FmtC(c) \o <<39>>
\* "Expected '%c'"
MsgExpectedChar(c) ==
    <<69, 120, 112, 101, 99, 116, 101, 100, 32, 39>> \o FmtC(c) \o <<39>>
\* "Expected one of '%s' but got '%c'"
MsgExpectedOneOf(set, c) ==
    <<69, 120, 112, 101, 99, 116, 101, 100, 32, 111, 110, 101, 32, 111, 102, 32, 39>>
    \o set \o <<39, 32, 98, 117, 116, 32, 103, 111, 116, 32, 39>> \o FmtC(c) \o <<39>>
\* "Unexpected '%c'"
MsgUnexpected(c) ==
    <<85, 110, 101, 120, 112, 101, 99, 116, 101, 100, 32, 39>> \o FmtC(c) \o <<39>>
\* "Expected '%s'"
MsgExpectedString(s) ==
    <<69, 120, 112, 101, 99, 116, 101, 100, 32, 39>> \o s \o <<39>>

\* every value of type byte
AllBytes == 0..255

\* the bytes c with bytes.IndexByte(set, c) >= 0
Members(set) == {set[i] : i \in 1..Len(set)}

(***************************************************************************)
(* ParseState, ParseErr and the cursor primitive.                          *)
(*                                                                         *)
(* A state threaded through a run carries, beside the three fields of      *)
(* ParseState, the history of the run, which no code reads: Calls, the     *)
(* number of Parser functions invoked so far; Hist, the position and line  *)
(* after each assignment to the state (a next that consumed a byte, a      *)
(* restore of Pos); Watch, a parser whose successful applications are      *)
(* counted in Hits.                                                        *)
(***************************************************************************)
ParseState(source) == [Source |-> source, Pos |-> 0, Line |-> 1]

Traced(s) ==
    [Source |-> s.Source, Pos |-> s.Pos, Line |-> s.Line,
     Calls |-> 0, Hist |-> <<>>, Watch |-> nil, Hits |-> 0]

\* the state s, just assigned to by a step of kind op, entered in the history
Logged(op, s) == [s EXCEPT !.Hist = Append(@, [op |-> op, Pos |-> s.Pos, Line |-> s.Line])]
Cursor(s) == [Source |-> s.Source, Pos |-> s.Pos, Line |-> s.Line]

ParseErr(reason, line) == [Reason |-> reason, Line |-> line]

\* ParseErr.Error: "%s on line %d"
Error(err) == err.Reason \o <<32, 111, 110, 32, 108, 105, 110, 101, 32>> \o Digits10(err.Line)

\* what a Parser call yields: the state it leaves, its value and its error; fatal
\* is set when the call never returned because the stack overflowed
Result(s, x, err) == [st |-> s, x |-> x, err |-> err, fatal |-> FALSE]
Fatal(s) == [st |-> s, x |-> nil, err |-> nil, fatal |-> TRUE]

\* next whose bounds test admits the offset len(Source), read as a NUL byte
nextPastEnd(s, pred) ==
    IF s.Pos <= Len(s.Source)
    THEN LET c == IF s.Pos < Len(s.Source) THEN s.Source[s.Pos + 1] ELSE NUL IN
         IF (c \in pred) = FALSE
         THEN [st |-> s, c |-> c, ok |-> FALSE]
         ELSE [st |-> Logged("next", [s EXCEPT !.Pos = @ + 1,
                                               !.Line = IF c = LF THEN @ + 1 ELSE @]),
               c |-> c, ok |-> TRUE]
    ELSE [st |-> s, c |-> NUL, ok |-> FALSE]

\* next that counts a line at a carriage return as well
nextLineOnReturn(s, pred) ==
    IF s.Pos < Len(s.Source)
    THEN LET c == s.Source[s.Pos + 1] IN
         IF (c \in pred) = FALSE
         THEN [st |-> s, c |-> c, ok |-> FALSE]
         ELSE [st |-> Logged("next", [s EXCEPT !.Pos = @ + 1,
                                               !.Line = IF c \in {LF, 13} THEN @ + 1 ELSE @]),
               c |-> c, ok |-> TRUE]
    ELSE [st |-> s, c |-> NUL, ok |-> FALSE]

\* pred, a func(byte) bool, is the set of bytes it holds of
next(s, pred) ==
    IF s.Pos < Len(s.Source)
    THEN LET c == s.Source[s.Pos + 1] IN
         IF (c \in pred) = FALSE
         THEN [st |-> s, c |-> c, ok |-> FALSE]
         ELSE [st |-> Logged("next", [s EXCEPT !.Pos = @ + 1,
                                               !.Line = IF c = LF THEN @ + 1 ELSE @]),
               c |-> c, ok |-> TRUE]
    ELSE [st |-> s, c |-> NUL, ok |-> FALSE]

\* trap that takes the offset for the line
trapPos(s, reason) == ParseErr(reason, s.Pos)

trap(s, reason) == ParseErr(reason, s.Line)

(***************************************************************************)
(* Parsers as values: what each constructor of the library captures.       *)
(***************************************************************************)
AnyChar == [k |-> "AnyChar"]
Eof == [k |-> "Eof"]
Char(c) == [k |-> "Char", c |-> c]
OneOf(set) == [k |-> "OneOf", set |-> set]
NoneOf(set) == [k |-> "NoneOf", set |-> set]
String(s) == [k |-> "String", s |-> s]
Return(x) == [k |-> "Return", x |-> x]
Fail(msg) == [k |-> "Fail", msg |-> msg]
Bind(p, f) == [k |-> "Bind", p |-> p, f |-> f]
Bind_(p1, p2) == [k |-> "Bind_", p1 |-> p1, p2 |-> p2]
Either(p1, p2) == [k |-> "Either", p1 |-> p1, p2 |-> p2]
Try(p) == [k |-> "Try", p |-> p]

\* Option that rolls a failed p back before falling back on x
OptionTry(x, p) == Either(Try(p), Return(x))

Option(x, p) == Either(p, Return(x))

\* the closures head and tail of Many1, SepBy1 and ManyTil, and keep of Between
Many1Head(p) == [k |-> "Many1.head", p |-> p]
ConsTail(x) == [k |-> "tail", x |-> x]
SepBy1Head(p, sep) == [k |-> "SepBy1.head", p |-> p, sep |-> sep]
ManyTilHead(p, end) == [k |-> "ManyTil.head", p |-> p, end |-> end]
BetweenKeep(end) == [k |-> "Between.keep", end |-> end]

\* Many1 that settles for no match at all
Many1OrNone(p) == Option(List(<<>>), Bind(p, Many1Head(p)))

\* Many1 that tries each element out, rolls it back, and then matches it
Many1Twice(p) == Bind(Either(Try(Bind_(p, Fail(<<>>))), p), Many1Head(p))

Many1(p) == Bind(p, Many1Head(p))
Many(p) == Option(List(<<>>), Many1(p))
\* Maybe that rolls a failed p back
MaybeTry(p) == Option(nil, Bind_(Try(p), Return(nil)))

Maybe(p) == Option(nil, Bind_(p, Return(nil)))
Skip(p) == Maybe(Many(p))
Between(start, end, p) == Bind_(start, Bind(p, BetweenKeep(end)))
SepBy1(p, sep) == Bind(p, SepBy1Head(p, sep))
SepBy(p, sep) == Option(List(<<>>), SepBy1(p, sep))
\* ManyTil that takes an element before it looks for the terminal
ManyTilElementFirst(p, end) ==
    Either(Bind(p, ManyTilHead(p, end)), Bind_(Try(end), Return(List(<<>>))))

ManyTil(p, end) ==
    Either(Bind_(Try(end), Return(List(<<>>))), Bind(p, ManyTilHead(p, end)))

\* tail that appends x behind xs
CallTailReversed(f, x) ==
    CASE f.k = "Many1.head" -> Bind(Many(f.p), ConsTail(x))
      [] f.k = "SepBy1.head" -> Bind(Many(Bind_(f.sep, f.p)), ConsTail(x))
      [] f.k = "ManyTil.head" -> Bind(ManyTil(f.p, f.end), ConsTail(x))
      [] f.k = "tail" -> Return(List(x.list \o <<f.x>>))
      [] f.k = "Between.keep" -> Bind_(f.end, Return(x))

\* SepBy1's head that takes the separator after each further element
CallSepAfter(f, x) ==
    CASE f.k = "Many1.head" -> Bind(Many(f.p), ConsTail(x))
      [] f.k = "SepBy1.head" -> Bind(Many(Bind_(f.p, f.sep)), ConsTail(x))
      [] f.k = "ManyTil.head" -> Bind(ManyTil(f.p, f.end), ConsTail(x))
      [] f.k = "tail" -> Return(List(<<f.x>> \o x.list))
      [] f.k = "Between.keep" -> Bind_(f.end, Return(x))

\* f(x) for the continuations the library passes to Bind
Call(f, x) ==
    CASE f.k = "Many1.head" -> Bind(Many(f.p), ConsTail(x))
      [] f.k = "SepBy1.head" -> Bind(Many(Bind_(f.sep, f.p)), ConsTail(x))
      [] f.k = "ManyTil.head" -> Bind(ManyTil(f.p, f.end), ConsTail(x))
      [] f.k = "tail" -> Return(List(<<f.x>> \o x.list))
      [] f.k = "Between.keep" -> Bind_(f.end, Return(x))

\* the library's pre-built parsers
Digit == OneOf(<<48, 49, 50, 51, 52, 53, 54, 55, 56, 57>>)
\* "0123456789acdefABCDEF"
HexDigit ==
    OneOf(<<48, 49, 50, 51, 52, 53, 54, 55, 56, 57, 97, 99, 100, 101, 102,
            65, 66, 67, 68, 69, 70>>)
HexDigits == Many1(HexDigit)
Newline == OneOf(<<13, 10>>)
Eol == Either(Eof, Newline)

(***************************************************************************)
(* The bodies of the closures.                                             *)
(***************************************************************************)
RECURSIVE Run(_, _, _)

AnyCharFn(s) ==
    LET n == next(s, AllBytes) IN
    IF n.ok THEN Result(n.st, Byte(n.c), nil)
    ELSE Result(n.st, nil, trap(n.st, MsgUnexpectedEof))

EofFn(s) ==
    LET n == next(s, AllBytes) IN
    IF n.ok THEN Result(n.st, nil, trap(n.st, MsgExpectedEof(n.c)))
    ELSE Result(n.st, nil, nil)

CharFn(c, s) ==
    LET n == next(s, {c}) IN
    IF n.ok THEN Result(n.st, Byte(n.c), nil)
    ELSE Result(n.st, nil, trap(n.st, MsgExpectedChar(c)))

OneOfFn(set, s) ==
    LET n == next(s, Members(set)) IN
    IF n.ok THEN Result(n.st, Byte(n.c), nil)
    ELSE Result(n.st, nil, trap(n.st, MsgExpectedOneOf(set, n.c)))

NoneOfFn(set, s) ==
    LET n == next(s, AllBytes \ Members(set)) IN
    IF n.ok THEN Result(n.st, Byte(n.c), nil)
    ELSE Result(n.st, nil, trap(n.st, MsgUnexpected(n.c)))

\* String's mismatch branch without the assignment to Pos
StringMismatchKeep(str, oldPos, s) == Result(s, nil, trap(s, MsgExpectedString(str)))

\* a byte of String did not match: the position is put back and the error made
StringMismatch(str, oldPos, s) ==
    LET back == Logged("back", [s EXCEPT !.Pos = oldPos]) IN
    Result(back, nil, trap(back, MsgExpectedString(str)))

RECURSIVE StringLoop(_, _, _, _)
\* the loop of String from its i-th byte on
StringLoop(str, i, oldPos, s) ==
    IF i > Len(str) THEN Result(s, Str(str), nil)
    ELSE LET n == next(s, {str[i]}) IN
         IF n.ok = FALSE THEN StringMismatch(str, oldPos, n.st)
         ELSE StringLoop(str, i + 1, oldPos, n.st)

StringFn(str, s) == StringLoop(str, 1, s.Pos, s)

ReturnFn(x, s) == Result(s, x, nil)

\* msg is trap's format string; the messages drawn hold no '%' verb
FailFn(msg, s) == Result(s, nil, trap(s, msg))

\* Bind that puts the position back when p fails
BindFnRollback(p, f, s, d) ==
    LET oldPos == s.Pos
        r == Run(p, s, d + 1)
    IN  IF r.fatal THEN r
        ELSE IF r.err # nil THEN Result([r.st EXCEPT !.Pos = oldPos], nil, r.err)
        ELSE Run(Call(f, r.x), r.st, d + 1)

BindFn(p, f, s, d) ==
    LET r == Run(p, s, d + 1) IN
    IF r.fatal THEN r
    ELSE IF r.err # nil THEN Result(r.st, nil, r.err)
    ELSE Run(Call(f, r.x), r.st, d + 1)

Bind_Fn(p1, p2, s, d) ==
    LET r == Run(p1, s, d + 1) IN
    IF r.fatal THEN r
    ELSE IF r.err # nil THEN Result(r.st, nil, r.err)
    ELSE Run(p2, r.st, d + 1)

\* Either that tries p2 after every failure of p1
EitherFnAlways(p1, p2, s, d) ==
    LET r == Run(p1, s, d + 1)
    IN  IF r.fatal THEN r
        ELSE IF r.err = nil THEN Result(r.st, r.x, nil)
        ELSE Run(p2, r.st, d + 1)

\* Either that reports p1's error when p2 fails as well
EitherFnFirstErr(p1, p2, s, d) ==
    LET oldPos == s.Pos
        r == Run(p1, s, d + 1)
        r2 == Run(p2, r.st, d + 1)
    IN  IF r.fatal THEN r
        ELSE IF r.err = nil THEN Result(r.st, r.x, nil)
        ELSE IF r.st.Pos = oldPos
             THEN (IF r2.fatal \/ r2.err = nil THEN r2 ELSE Result(r2.st, nil, r.err))
        ELSE Result(r.st, nil, r.err)

EitherFn(p1, p2, s, d) ==
    LET oldPos == s.Pos
        r == Run(p1, s, d + 1)
    IN  IF r.fatal THEN r
        ELSE IF r.err = nil THEN Result(r.st, r.x, nil)
        ELSE IF r.st.Pos = oldPos THEN Run(p2, r.st, d + 1)
        ELSE Result(r.st, nil, r.err)

\* Try without the assignment to Pos
TryFnNoRestore(p, s, d) ==
    LET r == Run(p, s, d + 1)
    IN  IF r.fatal THEN r
        ELSE IF r.err = nil THEN Result(r.st, r.x, nil)
        ELSE Result(r.st, nil, r.err)

\* Try that puts the line back together with the position
TryFnRestoreLine(p, s, d) ==
    LET oldPos == s.Pos
        oldLine == s.Line
        r == Run(p, s, d + 1)
    IN  IF r.fatal THEN r
        ELSE IF r.err = nil THEN Result(r.st, r.x, nil)
        ELSE Result(Logged("back", [r.st EXCEPT !.Pos = oldPos, !.Line = oldLine]), nil, r.err)

TryFn(p, s, d) ==
    LET oldPos == s.Pos
        r == Run(p, s, d + 1)
    IN  IF r.fatal THEN r
        ELSE IF r.err = nil THEN Result(r.st, r.x, nil)
        ELSE Result(Logged("back", [r.st EXCEPT !.Pos = oldPos]), nil, r.err)

\* p(st): one more Parser function is invoked; past MaxDepth nested calls the
\* goroutine's stack is exhausted and the program dies
Run(p, s0, d) ==
    IF d > MaxDepth THEN Fatal(s0)
    ELSE LET s == [s0 EXCEPT !.Calls = @ + 1]
             r == CASE p.k = "AnyChar" -> AnyCharFn(s)
                    [] p.k = "Eof" -> EofFn(s)
                    [] p.k = "Char" -> CharFn(p.c, s)
                    [] p.k = "OneOf" -> OneOfFn(p.set, s)
                    [] p.k = "NoneOf" -> NoneOfFn(p.set, s)
                    [] p.k = "String" -> StringFn(p.s, s)
                    [] p.k = "Return" -> ReturnFn(p.x, s)
                    [] p.k = "Fail" -> FailFn(p.msg, s)
                    [] p.k = "Bind" -> BindFn(p.p, p.f, s, d)
                    [] p.k = "Bind_" -> Bind_Fn(p.p1, p.p2, s, d)
                    [] p.k = "Either" -> EitherFn(p.p1, p.p2, s, d)
                    [] p.k = "Try" -> TryFn(p.p, s, d)
         IN  IF p = s0.Watch /\ ~r.fatal /\ r.err = nil
             THEN [r EXCEPT !.st.Hits = @ + 1]
             ELSE r

(***************************************************************************)
(* The inputs the model draws from.                                        *)
(***************************************************************************)
\* "1,2,3", "abcSTOP", "abab", "abac", "x" and "\r"
ExampleSources ==
    { <<49, 44, 50, 44, 51>>, <<97, 98, 99, 83, 84, 79, 80>>,
      <<97, 98, 97, 98>>, <<97, 98, 97, 99>>, <<120>>, <<13>> }

Sources == UNION {[1..n -> Alphabet] : n \in 0..MaxLen} \cup ExampleSources

\* "boom"
Boom == <<98, 111, 111, 109>>
\* "STOP"
Stop == <<83, 84, 79, 80>>

Strings == { <<>>, <<97>>, <<97, 98>>, <<LF, 97>>, <<98, LF>>, <<97, 98, 97, 98>>, Stop }

Primitives ==
    { AnyChar, Eof, Char(97), Char(LF), OneOf(<<97, 98>>), NoneOf(<<97>>) }

\* parsers given to the combinators as operands
Operands ==
    Primitives \cup
    { String(<<97, 98>>), String(<<LF, 97>>), Return(nil), Fail(Boom), Digit,
      Bind_(Char(97), Char(98)),
      Bind_(AnyChar, Char(97)),
      Try(Bind_(Char(LF), Char(97))),
      Try(Bind_(Char(97), Char(98))) }

\* parsers given as the second operand
Seconds ==
    { Char(97), Char(98), Char(44), AnyChar, Return(Byte(98)), Fail(Boom),
      String(<<LF, 97>>), Try(Bind_(Char(97), Char(LF))) }

Terminators == { String(s) : s \in Strings } \cup { Char(98), Eof }

(***************************************************************************)
(* The program: Parse builds the state and runs a parser on it; after a    *)
(* parser has returned, the caller may run another one on the same state.  *)
(***************************************************************************)
Init ==
    /\ st \in { ParseState(source) : source \in Sources }
    /\ pc = "start"
    /\ fn = "none"
    /\ args = <<>>
    /\ pre = st
    /\ res = Result(Traced(st), nil, nil)

\* the combinators that apply their first operand over and over
Repetitions == {"Many", "Many1", "Skip", "SepBy", "SepBy1", "ManyTil"}

\* p(&st) on the current state, for the parser p built by fn(a)
Apply(name, a, p) ==
    LET watch == IF name \in Repetitions THEN a[1] ELSE nil
        r == Run(p, [Traced(st) EXCEPT !.Watch = watch], 0)
    IN
    /\ st' = Cursor(r.st)
    /\ pc' = IF r.fatal THEN "fatal" ELSE "returned"
    /\ fn' = name
    /\ args' = a
    /\ pre' = st
    /\ res' = r

\* parsers given to Parse beside the operands: Char('y')
Scenarios == { Char(121) }

Parse ==
    /\ pc = "start"
    /\ \E p \in Operands \cup Scenarios : Apply("Parse", <<p>>, p)

Ready == pc = "ready" /\ st.Line <= MaxLine

ApplyAnyChar == Ready /\ Apply("AnyChar", <<>>, AnyChar)

ApplyEof == Ready /\ Apply("Eof", <<>>, Eof)

ApplyChar == Ready /\ \E c \in Alphabet : Apply("Char", <<c>>, Char(c))

ApplyOneOf ==
    Ready /\ \E set \in {<<97, 98>>, <<LF>>, <<>>} : Apply("OneOf", <<set>>, OneOf(set))

ApplyNoneOf ==
    Ready /\ \E set \in {<<97, 98>>, <<LF>>, <<>>} : Apply("NoneOf", <<set>>, NoneOf(set))

ApplyString == Ready /\ \E s \in Strings : Apply("String", <<s>>, String(s))

ApplyReturn == Ready /\ \E x \in {nil, Byte(97)} : Apply("Return", <<x>>, Return(x))

ApplyFail == Ready /\ Apply("Fail", <<Boom>>, Fail(Boom))

ApplyBind ==
    Ready /\ \E p \in Operands, f \in {Many1Head(Char(97)), BetweenKeep(Char(98))} :
        Apply("Bind", <<p, f>>, Bind(p, f))

ApplyBind_ ==
    Ready /\ \E p1 \in Operands, p2 \in Seconds : Apply("Bind_", <<p1, p2>>, Bind_(p1, p2))

ApplyEither ==
    Ready /\ \E p1 \in Operands, p2 \in Seconds : Apply("Either", <<p1, p2>>, Either(p1, p2))

ApplyTry == Ready /\ \E p \in Operands : Apply("Try", <<p>>, Try(p))

ApplyOption ==
    Ready /\ \E p \in Operands : Apply("Option", <<Byte(98), p>>, Option(Byte(98), p))

ApplyMany1 == Ready /\ \E p \in Operands : Apply("Many1", <<p>>, Many1(p))

ApplyMany == Ready /\ \E p \in Operands : Apply("Many", <<p>>, Many(p))

ApplyMaybe == Ready /\ \E p \in Operands : Apply("Maybe", <<p>>, Maybe(p))

ApplySkip == Ready /\ \E p \in Operands : Apply("Skip", <<p>>, Skip(p))

ApplyBetween ==
    Ready /\ \E start \in {Char(97), Return(nil)}, end \in {Char(98), Eof}, p \in Operands :
        Apply("Between", <<start, end, p>>, Between(start, end, p))

ApplySepBy1 ==
    Ready /\ \E p \in Operands, sep \in Seconds : Apply("SepBy1", <<p, sep>>, SepBy1(p, sep))

ApplySepBy ==
    Ready /\ \E p \in Operands, sep \in Seconds : Apply("SepBy", <<p, sep>>, SepBy(p, sep))

ApplyManyTil ==
    Ready /\ \E p \in {AnyChar, Char(97), Bind_(Char(97), Char(98))}, end \in Terminators :
        Apply("ManyTil", <<p, end>>, ManyTil(p, end))

ApplyEol == Ready /\ Apply("Eol", <<>>, Eol)

ApplyHexDigit == Ready /\ Apply("HexDigit", <<>>, HexDigit)

ApplyHexDigits == Ready /\ Apply("HexDigits", <<>>, HexDigits)

\* the caller drops the last outcome and goes on with the state it left
Continue ==
    /\ pc = "returned"
    /\ pc' = "ready"
    /\ fn' = "none"
    /\ args' = <<>>
    /\ pre' = st
    /\ res' = Result(Traced(st), nil, nil)
    /\ UNCHANGED st

Next ==
    \/ Parse
    \/ ApplyAnyChar
    \/ ApplyEof
    \/ ApplyChar
    \/ ApplyOneOf
    \/ ApplyNoneOf
    \/ ApplyString
    \/ ApplyReturn
    \/ ApplyFail
    \/ ApplyBind
    \/ ApplyBind_
    \/ ApplyEither
    \/ ApplyTry
    \/ ApplyOption
    \/ ApplyMany1
    \/ ApplyMany
    \/ ApplyMaybe
    \/ ApplySkip
    \/ ApplyBetween
    \/ ApplySepBy1
    \/ ApplySepBy
    \/ ApplyManyTil
    \/ ApplyEol
    \/ ApplyHexDigit
    \/ ApplyHexDigits
    \/ Continue

Spec == Init /\ [][Next]_vars

TypeOK ==
    /\ pc \in {"start", "ready", "returned", "fatal"}
    /\ st.Pos \in 0..Len(st.Source)
    /\ st.Line >= 1

(***************************************************************************)
(* What the claims are stated over.                                        *)
(***************************************************************************)
\* the last call has returned
Returned(name) == pc = "returned" /\ fn = name

\* an operand of the last call run by itself on the state the call began in,
\* one call deep as the combinator runs it
Alone(p) == Run(p, Traced(pre), 1)

\* p applied over and over from state s, as a loop: xs are the values of the
\* applications that succeeded, st the state after the last of them, fail the
\* application that failed; loops is set when an application succeeded without
\* moving the position, after which the loop would never end
RECURSIVE Repeat(_, _, _)
Repeat(p, s, xs) ==
    LET r == Run(p, s, 1) IN
    IF r.err # nil THEN [xs |-> xs, st |-> s, fail |-> r, loops |-> FALSE]
    ELSE IF r.st.Pos = s.Pos THEN [xs |-> xs, st |-> s, fail |-> r, loops |-> TRUE]
    ELSE Repeat(p, r.st, Append(xs, r.x))

\* the failing application of a repetition left the position where it began
CleanStop(it) == ~it.loops /\ it.fail.st.Pos = it.st.Pos

(***************************************************************************)
(* C1  Many(p) never fails.                                                *)
(***************************************************************************)
\* C1 as claimed: whenever Many(p) returns, it returns success
C1_ManyNeverFails == Returned("Many") => res.err = nil

\* C1 as amended: Many(p) returns an error exactly when an application of p
\* fails having moved the position, and the error is that application's; when
\* the failing application leaves the position where it began, Many(p) succeeds
\* with a sequence
C1_ManyFailsOnlyAfterConsumption ==
    Returned("Many") =>
        LET it == Repeat(args[1], Traced(pre), <<>>) IN
        /\ ~it.loops
        /\ (res.err = nil) <=> CleanStop(it)
        /\ res.err = nil => DOMAIN res.x = {"list"}
        /\ res.err # nil => res.err = it.fail.err

\* Many of a two-byte parser succeeds with at least one element
C1_Witness ==
    /\ Returned("Many")
    /\ args[1] = Bind_(Char(97), Char(98))
    /\ res.err = nil
    /\ Len(res.x.list) >= 1

(***************************************************************************)
(* C2  Many1(p) fails iff the first application of p fails.                *)
(***************************************************************************)
\* C2 as claimed: Many1(p) returns an error exactly when p run once from the
\* start returns an error
C2_Many1FailsIffFirstFails ==
    Returned("Many1") => ((res.err # nil) <=> (Alone(args[1]).err # nil))

\* C2 as amended: Many1(p) returns an error exactly when the first application
\* of p fails or a later application fails having moved the position; when the
\* first application fails, Many1 returns its error and leaves the state as that
\* application left it
C2_Many1FailsIffFirstOrConsumed ==
    Returned("Many1") =>
        LET first == Alone(args[1])
            it == Repeat(args[1], Traced(pre), <<>>)
        IN  /\ (res.err # nil) <=> (first.err # nil \/ ~CleanStop(it))
            /\ first.err # nil =>
                   res.err = first.err /\ Cursor(res.st) = Cursor(first.st)

\* the first application succeeded and Many1 returned an error all the same
C2_Witness ==
    /\ Returned("Many1")
    /\ Alone(args[1]).err = nil
    /\ res.err # nil

(***************************************************************************)
(* C3  Either commits to p1 once p1 has moved the position.                *)
(***************************************************************************)
\* C3: if p1 fails and the position after it differs from the position before,
\* Either(p1, p2) returns p1's error, runs no parser besides p1, and leaves
\* position and line where p1 left them
C3_EitherCommit ==
    Returned("Either") =>
        LET r1 == Alone(args[1]) IN
        (r1.err # nil /\ r1.st.Pos # pre.Pos) =>
            /\ res.err = r1.err
            /\ res.x = nil
            /\ Cursor(res.st) = Cursor(r1.st)
            /\ res.st.Calls = 1 + r1.st.Calls

\* p1 failed after moving the position, with a p2 that would have succeeded
C3_Witness ==
    /\ Returned("Either")
    /\ Alone(args[1]).err # nil
    /\ Alone(args[1]).st.Pos > pre.Pos
    /\ Run(args[2], Alone(args[1]).st, 1).err = nil

(***************************************************************************)
(* C4  Either falls back on the right parser.                              *)
(***************************************************************************)
\* the left operand failed and left the position where it was
LeftFailedInPlace == Alone(args[1]).err # nil /\ Alone(args[1]).st.Pos = pre.Pos

\* C4 as claimed: if left fails with the position unchanged, Either(left, right)
\* yields what right alone yields from the original cursor state: the same
\* value or the same error reason and line, and the same final position
C4_EitherFallbackFromOriginalState ==
    (Returned("Either") /\ LeftFailedInPlace) =>
        LET r2 == Alone(args[2]) IN
        /\ res.x = r2.x
        /\ res.err = r2.err
        /\ res.st.Pos = r2.st.Pos

\* C4 as amended: if left fails with the position unchanged, Either(left, right)
\* yields what right yields from the original position with line as left left
\* it: the value, the error reason and the final position are those of right
\* run from the original cursor state, while the error line and the final line
\* are higher than right's by the line-feeds left consumed before it failed
C4_EitherFallbackKeepsLine ==
    (Returned("Either") /\ LeftFailedInPlace) =>
        LET r1 == Alone(args[1])
            r2 == Alone(args[2])
            skew == r1.st.Line - pre.Line
        IN  /\ res.x = r2.x
            /\ res.st.Pos = r2.st.Pos
            /\ res.st.Line = r2.st.Line + skew
            /\ (res.err = nil) <=> (r2.err = nil)
            /\ res.err # nil =>
                   /\ res.err.Reason = r2.err.Reason
                   /\ res.err.Line = r2.err.Line + skew

\* left consumed a line-feed before failing and was rolled back, then right failed
C4_Witness ==
    /\ Returned("Either")
    /\ LeftFailedInPlace
    /\ Alone(args[1]).st.Line > pre.Line
    /\ res.err # nil

(***************************************************************************)
(* C5  Try atomicity.                                                      *)
(***************************************************************************)
\* C5: if p fails, Try(p) leaves the position where it was before the call and
\* returns p's error; if p succeeds, Try(p) returns p's value and leaves the
\* position and line p leaves
C5_TryAtomicity ==
    Returned("Try") =>
        LET r == Alone(args[1]) IN
        /\ r.err # nil => (res.st.Pos = pre.Pos /\ res.err = r.err /\ res.x = nil)
        /\ r.err = nil => (res.err = nil /\ res.x = r.x /\ Cursor(res.st) = Cursor(r.st))

\* p moved the position before it failed
C5_Witness ==
    /\ Returned("Try")
    /\ res.err # nil
    /\ Alone(args[1]).st.Pos > pre.Pos

(***************************************************************************)
(* C6  String atomicity.                                                   *)
(***************************************************************************)
\* the bytes of src at [i, i + length(t)) are those of t
MatchesAt(t, src, i) ==
    /\ i + Len(t) <= Len(src)
    /\ \A j \in 1..Len(t) : src[i + j] = t[j]

\* C6: String(s) succeeds returning s with the position advanced by length(s)
\* exactly when the source bytes at [position, position + length(s)) equal s,
\* and otherwise fails with the position where it was before the call
C6_StringAtomicity ==
    Returned("String") =>
        LET s == args[1] IN
        IF MatchesAt(s, pre.Source, pre.Pos)
        THEN res.err = nil /\ res.x = Str(s) /\ res.st.Pos = pre.Pos + Len(s)
        ELSE res.err # nil /\ res.x = nil /\ res.st.Pos = pre.Pos

\* String failed after its first byte had matched
C6_Witness ==
    /\ Returned("String")
    /\ res.err # nil
    /\ Len(args[1]) >= 2
    /\ MatchesAt(<<args[1][1]>>, pre.Source, pre.Pos)

(***************************************************************************)
(* C7  A primitive matcher that fails consumes nothing.                    *)
(***************************************************************************)
\* C7: if AnyChar, Eof, Char(c), OneOf(set) or NoneOf(set) returns failure,
\* position and line are what they were before the call, and Eof never changes
\* the position
C7_FailedPrimitiveConsumesNothing ==
    (pc = "returned" /\ fn \in {"AnyChar", "Eof", "Char", "OneOf", "NoneOf"}) =>
        /\ res.err # nil => st = pre
        /\ fn = "Eof" => st.Pos = pre.Pos

(***************************************************************************)
(* C8  Many count law.                                                     *)
(***************************************************************************)
\* C8 as claimed: when the input from the position is k matches of p followed
\* by input on which p fails, Many(p) succeeds with the k values in the order
\* matched and leaves the position after the k-th match
C8_ManyCountLaw ==
    Returned("Many") =>
        LET it == Repeat(args[1], Traced(pre), <<>>) IN
        ~it.loops =>
            /\ res.err = nil
            /\ res.x = List(it.xs)
            /\ res.st.Pos = it.st.Pos

\* C8 as amended: when the input from the position is k matches of p followed
\* by input on which p fails without moving the position, Many(p) succeeds
\* with the k values in the order matched and leaves the position after the
\* k-th match
C8_ManyCountLawCleanStop ==
    Returned("Many") =>
        LET it == Repeat(args[1], Traced(pre), <<>>) IN
        CleanStop(it) =>
            /\ res.err = nil
            /\ res.x = List(it.xs)
            /\ res.st.Pos = it.st.Pos

\* two matches of a two-byte parser were collected
C8_Witness ==
    /\ Returned("Many")
    /\ args[1] = Bind_(Char(97), Char(98))
    /\ res.err = nil
    /\ res.x = List(<<Byte(98), Byte(98)>>)
    /\ res.st.Pos = pre.Pos + 4

(***************************************************************************)
(* C9  SepBy law.                                                          *)
(***************************************************************************)
\* p, sep, p, ..., p with k applications of p and k - 1 of sep, from state s:
\* ok when every one of them succeeded, xs the values of p, st the state after
\* the last p
RECURSIVE Chain(_, _, _, _, _)
Chain(p, sep, s, k, xs) ==
    LET r == Run(p, s, 1) IN
    IF r.err # nil THEN [ok |-> FALSE, xs |-> xs, st |-> r.st]
    ELSE IF k <= 1 THEN [ok |-> TRUE, xs |-> Append(xs, r.x), st |-> r.st]
    ELSE LET rs == Run(sep, r.st, 1) IN
         IF rs.err # nil THEN [ok |-> FALSE, xs |-> xs, st |-> rs.st]
         ELSE Chain(p, sep, rs.st, k - 1, Append(xs, r.x))

\* C9: when SepBy1(p, sep) succeeds with a sequence of length k, then k >= 1,
\* the input holds k matches of p alternating with k - 1 matches of sep, the
\* sequence is p's values in input order, and the final position is the one
\* after the last p; digits separated by commas on "1,2,3" give '1','2','3'
\* at offset 5
C9_SepByLaw ==
    (Returned("SepBy1") /\ res.err = nil) =>
        LET k == Len(res.x.list)
            c == Chain(args[1], args[2], Traced(pre), k, <<>>)
        IN  /\ k >= 1
            /\ c.ok
            /\ res.x.list = c.xs
            /\ res.st.Pos = c.st.Pos
            /\ (pre.Source = <<49, 44, 50, 44, 51>> /\ pre.Pos = 0
                    /\ args = <<Digit, Char(44)>>) =>
                   (res.x = List(<<Byte(49), Byte(50), Byte(51)>>) /\ res.st.Pos = 5)

\* the digits of "1,2,3" were collected
C9_Witness ==
    /\ Returned("SepBy1")
    /\ pre.Source = <<49, 44, 50, 44, 51>>
    /\ pre.Pos = 0
    /\ args = <<Digit, Char(44)>>
    /\ res.err = nil
    /\ Len(res.x.list) = 3

(***************************************************************************)
(* C10  ManyTil stops at the first terminator.                             *)
(***************************************************************************)
\* the positions from the start on at which t matches the source
MatchPositions(t) == {i \in pre.Pos..Len(pre.Source) : MatchesAt(t, pre.Source, i)}

\* C10: with p = AnyChar and end = String(t), t not empty, when t first matches
\* at offset m of the input, ManyTil(p, end) succeeds with the bytes before m
\* in order and leaves the position at m + length(t)
C10_ManyTilStopsAtFirstTerminator ==
    (Returned("ManyTil") /\ args[1] = AnyChar /\ args[2].k = "String") =>
        LET t == args[2].s
            at == MatchPositions(t)
        IN  (Len(t) > 0 /\ at # {}) =>
                LET m == CHOOSE i \in at : \A j \in at : i <= j IN
                /\ res.err = nil
                /\ res.x = List([j \in 1..(m - pre.Pos) |-> Byte(pre.Source[pre.Pos + j])])
                /\ res.st.Pos = m + Len(t)

\* "abcSTOP" read up to "STOP"
C10_Witness ==
    /\ Returned("ManyTil")
    /\ pre.Source = <<97, 98, 99, 83, 84, 79, 80>>
    /\ pre.Pos = 0
    /\ args = <<AnyChar, String(Stop)>>
    /\ res.x = List(<<Byte(97), Byte(98), Byte(99)>>)
    /\ res.st.Pos = 7

(***************************************************************************)
(* C11  Position bound.                                                    *)
(***************************************************************************)
\* the states of the last call: the one it began in, then the one after each
\* assignment the run made to the state
Steps == <<[op |-> "call", Pos |-> pre.Pos, Line |-> pre.Line]>> \o res.st.Hist

\* C11: in every state a run passes through, whether it returned or overflowed
\* the stack, 0 <= position <= length(source), and the source is the one Parse
\* was given
C11_PositionBound ==
    /\ st.Pos \in 0..Len(st.Source)
    /\ \A i \in 1..Len(Steps) : Steps[i].Pos \in 0..Len(pre.Source)
    /\ res.st.Source = pre.Source
    /\ st.Source = pre.Source

\* a run that reached the end of its source and was rolled back from there
C11_Witness ==
    /\ pc = "returned"
    /\ Len(pre.Source) >= 2
    /\ \E i \in 1..Len(Steps) : Steps[i].op = "next" /\ Steps[i].Pos = Len(pre.Source)
    /\ \E i \in 1..Len(Steps) : Steps[i].op = "back" /\ Steps[i].Pos = 0

(***************************************************************************)
(* C12  Maybe(p) always succeeds with no value.                            *)
(***************************************************************************)
\* C12 as claimed: Maybe(p) returns success with a nil value; if p matches the
\* position is where p left it, otherwise nothing is consumed
C12_MaybeAlwaysSucceeds ==
    Returned("Maybe") =>
        LET r == Alone(args[1]) IN
        /\ res.err = nil
        /\ res.x = nil
        /\ r.err = nil => res.st.Pos = r.st.Pos
        /\ r.err # nil => res.st.Pos = pre.Pos

\* C12 as amended: Maybe(p) returns success with a nil value when p matches,
\* leaving the position where p left it, and when p fails without having moved
\* the position, consuming nothing; when p fails after having moved the
\* position, Maybe(p) returns p's error and leaves the state as p left it
C12_MaybeSucceedsUnlessConsumed ==
    Returned("Maybe") =>
        LET r == Alone(args[1]) IN
        /\ r.err = nil =>
               res.err = nil /\ res.x = nil /\ Cursor(res.st) = Cursor(r.st)
        /\ (r.err # nil /\ r.st.Pos = pre.Pos) =>
               res.err = nil /\ res.x = nil /\ res.st.Pos = pre.Pos
        /\ (r.err # nil /\ r.st.Pos # pre.Pos) =>
               res.err = r.err /\ Cursor(res.st) = Cursor(r.st)

\* p failed where it began and Maybe succeeded with no value
C12_Witness ==
    /\ Returned("Maybe")
    /\ Alone(args[1]).err # nil
    /\ res.err = nil
    /\ res.x = nil
    /\ res.st.Pos = pre.Pos
    /\ pre.Pos < Len(pre.Source)

(***************************************************************************)
(* C13  Rollback leaves line untouched.                                    *)
(***************************************************************************)
\* the number of line-feeds in the byte sequence s
LineFeeds(s) == Cardinality({i \in 1..Len(s) : s[i] = LF})

\* how many leading bytes of t the source holds at offset i
MatchedPrefix(t, src, i) ==
    CHOOSE j \in 0..Len(t) :
        /\ MatchesAt(SubSeq(t, 1, j), src, i)
        /\ \A k \in (j + 1)..Len(t) : ~MatchesAt(SubSeq(t, 1, k), src, i)

\* C13: when Try(p) fails, the position is the one before the call and line is
\* the value the attempt left, which the returned error carries; when
\* String(s) fails, the position is the one before the call and line, in the
\* state and in the error, is higher by the line-feeds matched before the
\* mismatch
C13_RollbackKeepsLine ==
    /\ (Returned("Try") /\ res.err # nil) =>
           LET r == Run(args[1], Traced(pre), 1) IN
           /\ res.st.Pos = pre.Pos
           /\ res.st.Line = r.st.Line
           /\ res.st.Line >= pre.Line
           /\ res.err.Line = r.st.Line
    /\ (Returned("String") /\ res.err # nil) =>
           LET s == args[1]
               j == MatchedPrefix(s, pre.Source, pre.Pos)
           IN  /\ res.st.Pos = pre.Pos
               /\ res.st.Line = pre.Line + LineFeeds(SubSeq(s, 1, j))
               /\ res.err.Line = res.st.Line

\* Try rolled back an attempt that had consumed a line-feed
C13_Witness ==
    /\ Returned("Try")
    /\ res.err # nil
    /\ res.st.Pos = pre.Pos
    /\ res.st.Line = pre.Line + 1
    /\ res.err.Line = pre.Line + 1

(***************************************************************************)
(* C14  Error line is the line at the moment of failure.                   *)
(***************************************************************************)
\* "Expected 'y' on line 1"
TextExpectedY ==
    <<69, 120, 112, 101, 99, 116, 101, 100, 32, 39, 121, 39, 32, 111, 110, 32,
      108, 105, 110, 101, 32, 49>>

\* C14: an error returned by a matcher or by Fail carries the line of the state
\* at its return; Bind, Bind_, Either and Try return the error of an operand
\* with reason and line as the operand made it; Parse("x", Char('y')) fails
\* with the text "Expected 'y' on line 1"
C14_ErrorLine ==
    /\ (pc = "returned" /\ res.err # nil
            /\ fn \in {"AnyChar", "Eof", "Char", "OneOf", "NoneOf", "String", "Fail"}) =>
           res.err.Line = res.st.Line
    /\ (Returned("Fail") /\ res.err # nil) => res.err.Line = pre.Line
    /\ (pc = "returned" /\ res.err # nil /\ fn \in {"Bind_", "Either"}) =>
           LET r1 == Alone(args[1]) IN
           res.err \in {r1.err, Run(args[2], r1.st, 1).err}
    /\ (Returned("Bind") /\ res.err # nil) =>
           LET r1 == Alone(args[1]) IN
           IF r1.err # nil THEN res.err = r1.err
           ELSE res.err = Run(Call(args[2], r1.x), r1.st, 1).err
    /\ (Returned("Try") /\ res.err # nil) => res.err = Alone(args[1]).err
    /\ (Returned("Parse") /\ pre.Source = <<120>> /\ args = <<Char(121)>>) =>
           res.err # nil /\ Error(res.err) = TextExpectedY

\* Parse("x", Char('y')) has failed
C14_Witness ==
    /\ Returned("Parse")
    /\ pre.Source = <<120>>
    /\ args = <<Char(121)>>
    /\ res.err # nil
    /\ Error(res.err) = TextExpectedY

(***************************************************************************)
(* C16  Bind sequencing.                                                   *)
(***************************************************************************)
\* C16: Bind(p, f) runs p first; if p fails, no parser besides p is run, the
\* result is p's error and position and line are as p left them; if p succeeds
\* with x, the result and the final position and line are those of f(x) run on
\* the state p left.  Bind_(p1, p2) does the same with p2 in place of f(x)
C16_BindSequencing ==
    /\ Returned("Bind") =>
           LET r == Alone(args[1]) IN
           /\ r.err # nil =>
                  /\ res.err = r.err
                  /\ res.x = nil
                  /\ Cursor(res.st) = Cursor(r.st)
                  /\ res.st.Calls = 1 + r.st.Calls
           /\ r.err = nil =>
                  LET r2 == Run(Call(args[2], r.x), Traced(Cursor(r.st)), 1) IN
                  /\ res.err = r2.err
                  /\ res.x = r2.x
                  /\ Cursor(res.st) = Cursor(r2.st)
    /\ Returned("Bind_") =>
           LET r == Alone(args[1]) IN
           /\ r.err # nil =>
                  /\ res.err = r.err
                  /\ res.x = nil
                  /\ Cursor(res.st) = Cursor(r.st)
                  /\ res.st.Calls = 1 + r.st.Calls
           /\ r.err = nil =>
                  LET r2 == Run(args[2], Traced(Cursor(r.st)), 1) IN
                  /\ res.err = r2.err
                  /\ res.x = r2.x
                  /\ Cursor(res.st) = Cursor(r2.st)

\* p failed after it had moved the position, and Bind left it there
C16_Witness ==
    /\ Returned("Bind")
    /\ res.err # nil
    /\ Alone(args[1]).err # nil
    /\ res.st.Pos > pre.Pos

(***************************************************************************)
(* C17  Eol.                                                               *)
(***************************************************************************)
\* C17: Eol succeeds without consuming at end of input, succeeds consuming
\* exactly one byte when the byte under the cursor is a carriage return or a
\* line feed, and fails on any other byte
C17_EolMatchesEndOfLine ==
    Returned("Eol") =>
        IF pre.Pos >= Len(pre.Source)
        THEN res.err = nil /\ res.st.Pos = pre.Pos
        ELSE IF pre.Source[pre.Pos + 1] \in {13, LF}
        THEN res.err = nil /\ res.st.Pos = pre.Pos + 1
        ELSE res.err # nil

(***************************************************************************)
(* C18  Termination of repetition.                                         *)
(***************************************************************************)
\* q run alone from offset i of the source of the last call
From(q, i) == Run(q, Traced([pre EXCEPT !.Pos = i]), 1)

\* q returns from every offset the run can reach
Terminating(q) == \A i \in pre.Pos..Len(pre.Source) : ~From(q, i).fatal

\* q returns from every offset the run can reach, and past it when it succeeds
Advancing(q) ==
    \A i \in pre.Pos..Len(pre.Source) :
        /\ ~From(q, i).fatal
        /\ From(q, i).err = nil => From(q, i).st.Pos > i

\* C18: when p, sep and end terminate and every success of p advances the
\* position, Many(p), Many1(p), Skip(p), SepBy(p, sep), SepBy1(p, sep) and
\* ManyTil(p, end) return, after at most length(source) - position successful
\* applications of p
C18_RepetitionTerminates ==
    ( /\ pc \in {"returned", "fatal"}
      /\ fn \in Repetitions
      /\ Advancing(args[1])
      /\ \A k \in 2..Len(args) : Terminating(args[k]) )
    => /\ pc = "returned"
       /\ res.st.Hits <= Len(pre.Source) - pre.Pos

\* a repetition whose p succeeded on every byte that was left, at least twice
C18_Witness ==
    /\ pc = "returned"
    /\ fn \in Repetitions
    /\ Advancing(args[1])
    /\ \A k \in 2..Len(args) : Terminating(args[k])
    /\ res.st.Hits >= 2
    /\ res.st.Hits = Len(pre.Source) - pre.Pos

(***************************************************************************)
(* C19  Line counter invariant.                                            *)
(***************************************************************************)
\* how far line is above one plus the line-feeds before the position
Skew(src, step) == step.Line - 1 - LineFeeds(SubSeq(src, 1, step.Pos))

\* the line-feeds a step back from offset from to offset to gives up
Discarded(src, from, to) == LineFeeds(SubSeq(src, to + 1, from))

\* C19: in every state a run passes through, line never decreases and
\* line >= 1 + the number of line-feeds before the position; consuming a
\* line-feed raises line by exactly one, consuming any other byte and rolling
\* the position back leave it unchanged; so line = 1 + the line-feeds before
\* the position as long as no rollback has given up a consumed line-feed
C19_LineCounter ==
    /\ Skew(st.Source, st) >= 0
    /\ \A i \in 1..Len(Steps) : Skew(pre.Source, Steps[i]) >= 0
    /\ \A i \in 2..Len(Steps) :
           LET was == Steps[i - 1]
               now == Steps[i]
           IN  /\ now.Line >= was.Line
               /\ now.op = "next" =>
                      /\ now.Pos = was.Pos + 1
                      /\ now.Line = was.Line + (IF pre.Source[now.Pos] = LF THEN 1 ELSE 0)
               /\ now.op = "back" =>
                      /\ now.Pos <= was.Pos
                      /\ now.Line = was.Line
    /\ \A i \in 1..Len(Steps) :
           ( /\ Skew(pre.Source, Steps[1]) = 0
             /\ \A j \in 2..i :
                    Steps[j].op = "back" =>
                        Discarded(pre.Source, Steps[j - 1].Pos, Steps[j].Pos) = 0 )
           => Skew(pre.Source, Steps[i]) = 0

\* a run that consumed a line-feed and another byte, keeping line exact, and
\* then rolled back over the line-feed, which left line one too high
C19_Witness ==
    /\ pc = "returned"
    /\ Skew(pre.Source, Steps[1]) = 0
    /\ \E i \in 3..Len(Steps) :
           /\ Steps[i].op = "back"
           /\ Discarded(pre.Source, Steps[i - 1].Pos, Steps[i].Pos) = 1
           /\ \E j \in 2..(i - 1) : Steps[j].op = "next" /\ pre.Source[Steps[j].Pos] # LF
           /\ Skew(pre.Source, Steps[i - 1]) = 0
           /\ Skew(pre.Source, Steps[i]) = 1

(***************************************************************************)
(* C20  HexDigit and HexDigits.                                            *)
(***************************************************************************)
\* the hexadecimal digits: 0-9, a-f, A-F
HexBytes == (48..57) \cup (97..102) \cup (65..70)

\* the length of the longest run of hexadecimal digits in src at offset i
HexRun(src, i) ==
    CHOOSE n \in 0..(Len(src) - i) :
        /\ \A k \in 1..n : src[i + k] \in HexBytes
        /\ n < Len(src) - i => src[i + n + 1] \notin HexBytes

\* C20: HexDigit succeeds, consuming the byte under the cursor, exactly when
\* that byte is one of 0-9, a-f, A-F; HexDigits collects the longest run of
\* such bytes at the cursor and fails only when that run is empty
C20_HexDigitAcceptsHexDigits ==
    /\ Returned("HexDigit") =>
           LET n == HexRun(pre.Source, pre.Pos) IN
           IF n > 0
           THEN /\ res.err = nil
                /\ res.x = Byte(pre.Source[pre.Pos + 1])
                /\ res.st.Pos = pre.Pos + 1
           ELSE res.err # nil /\ res.st.Pos = pre.Pos
    /\ Returned("HexDigits") =>
           LET n == HexRun(pre.Source, pre.Pos) IN
           IF n > 0
           THEN /\ res.err = nil
                /\ res.x = List([k \in 1..n |-> Byte(pre.Source[pre.Pos + k])])
                /\ res.st.Pos = pre.Pos + n
           ELSE res.err # nil /\ res.st.Pos = pre.Pos

====
